---- MODULE Spec2Model ----
(***************************************************************************)
(* Fort Bend County brand scraper                                          *)
(* (texas_brand_scraper/scrape_texas_brands_FortBendCounty.py).            *)
(*                                                                         *)
(* One run of main(): six sequential steps against one browser page,       *)
(* followed by the finally block that closes the browser and by the        *)
(* __main__ handlers that decide the exit status.                          *)
(*                                                                         *)
(* Text is a sequence of tokens.  The token "&nbsp;" is the literal        *)
(* six-character placeholder, " " is a whitespace character, the header    *)
(* keywords are tokens of their own, every other token is ordinary text.   *)
(***************************************************************************)
EXTENDS Integers, Sequences, FiniteSets, TLC

\* ---------------------------------------------------------------- bounds
MaxTables == 2
MaxRows == 4
MaxCells == 7

\* ---------------------------------------------------------------- text
EmptyText == <<>>
Nbsp == "&nbsp;"
Space == " "
Tab == "\t"
Whitespace == {Space, Tab}

\* str.strip(): drop leading and trailing whitespace
RECURSIVE LStrip(_)
LStrip(t) ==
    IF t = <<>> THEN <<>>
    ELSE IF Head(t) \in Whitespace THEN LStrip(Tail(t)) ELSE t

RECURSIVE RStrip(_)
RStrip(t) ==
    IF t = <<>> THEN <<>>
    ELSE IF t[Len(t)] \in Whitespace THEN RStrip(SubSeq(t, 1, Len(t) - 1)) ELSE t

Strip(t) == RStrip(LStrip(t))

\* str.replace('&nbsp;', ' ')
ReplaceNbsp(t) == [k \in 1..Len(t) |-> IF t[k] = Nbsp THEN Space ELSE t[k]]

\* needle in haystack, both token sequences
Contains(needle, hay) ==
    \E k \in 0..(Len(hay) - Len(needle)) :
        SubSeq(hay, k + 1, k + Len(needle)) = needle

\* ---------------------------------------------------------------- configuration
SEARCH_ENTRY_URL == <<"https://ccweb.co.fort-bend.tx.us/RealEstate/", "SearchEntry.aspx">>
SEARCH_RESULTS_URL == <<"https://ccweb.co.fort-bend.tx.us/RealEstate/", "SearchResults.aspx">>
ResultsPath == <<"SearchResults.aspx">>
HeaderKeywords == {<<"Instrument">>, <<"Date">>, <<"Doc Type">>}
OldContent == [status |-> "old", rows |-> <<>>]

\* ---------------------------------------------------------------- DOM handles
\* A cell handle: its tag, its inner text, and whether inner_text() answers.
\* A row handle: its cells, whether query_selector_all answers (ok) and
\* whether inner_text() answers (textOk).  A table handle: its rows and
\* whether query_selector_all("tr") answers.
Td(text) == [tag |-> "td", text |-> text, ok |-> TRUE]
Th(text) == [tag |-> "th", text |-> text, ok |-> TRUE]
TdUnreadable == [tag |-> "td", text |-> <<"x">>, ok |-> FALSE]
RowOf(cells) == [cells |-> cells, ok |-> TRUE, textOk |-> TRUE]
DetachedRow == [cells |-> <<Td(<<"x">>), Td(<<"y">>), Td(<<"z">>)>>, ok |-> FALSE, textOk |-> FALSE]
TableOf(rows) == [rows |-> rows, ok |-> TRUE]

\* row.query_selector_all("td")
TdCells(row) == SelectSeq(row.cells, LAMBDA c : c.tag = "td")

\* row.inner_text(): the cells' texts, tab separated
RECURSIVE JoinCells(_)
JoinCells(cells) ==
    IF cells = <<>> THEN <<>>
    ELSE IF Len(cells) = 1 THEN cells[1].text
    ELSE cells[1].text \o <<Tab>> \o JoinCells(Tail(cells))

RowText(row) == JoinCells(row.cells)

\* ---------------------------------------------------------------- find_results_table
\* line 139: cell_text.strip() and cell_text.strip() != '&nbsp;'
IsMeaningful(text) == Strip(text) # EmptyText /\ Strip(text) # <<Nbsp>>

\* What reading one cell does to the scan of lines 137-140.
ScanCell(cell) ==
    IF ~cell.ok THEN "raise"
    ELSE IF IsMeaningful(cell.text) THEN "hit"
    ELSE "skip"

\* What reading one sampled row does: its td cells in order, or the failure
\* of row.query_selector_all("td").
ScanRow(row) ==
    IF ~row.ok THEN <<"raise">>
    ELSE [k \in 1..Len(TdCells(row)) |-> ScanCell(TdCells(row)[k])]

\* Variant: every row after the first is sampled.
SampledRowsAll(rows) == SubSeq(rows, 2, Len(rows))

\* rows[1:3]
SampledRows(rows) == SubSeq(rows, 2, IF Len(rows) < 3 THEN Len(rows) ELSE 3)

RECURSIVE ScanRows(_)
ScanRows(rows) ==
    IF rows = <<>> THEN <<>> ELSE ScanRow(Head(rows)) \o ScanRows(Tail(rows))

\* The first event of the scan that ends it: a hit returns the table, a
\* raise is caught at line 142 and moves on to the next table.
RECURSIVE FirstDecisive(_)
FirstDecisive(events) ==
    IF events = <<>> THEN "none"
    ELSE IF Head(events) # "skip" THEN Head(events)
    ELSE FirstDecisive(Tail(events))

\* The body of the loop of lines 123-143 for one table.
CheckTable(table) ==
    IF ~table.ok THEN "continue"
    ELSE IF Len(table.rows) <= 1 THEN "continue"
    ELSE IF ~table.rows[1].ok THEN "continue"
    ELSE IF Len(table.rows[1].cells) < 3 THEN "continue"
    ELSE IF FirstDecisive(ScanRows(SampledRows(table.rows))) = "hit" THEN "select"
    ELSE "continue"

NoTable == [found |-> FALSE, index |-> -1, num_rows |-> 0, num_cols |-> 0]

\* enumerate(tables) from the 0-based index i on
RECURSIVE FindFrom(_, _)
FindFrom(tables, i) ==
    IF i >= Len(tables) THEN NoTable
    ELSE IF CheckTable(tables[i + 1]) = "select"
         THEN [found |-> TRUE, index |-> i,
               num_rows |-> Len(tables[i + 1].rows),
               num_cols |-> Len(tables[i + 1].rows[1].cells)]
         ELSE FindFrom(tables, i + 1)

FindResultsTable(tables) == FindFrom(tables, 0)

\* ---------------------------------------------------------------- scrape_results_table
\* lines 171-175: skip the first row when its text names a header keyword
StartRow(rows) ==
    IF RowText(rows[1]) # EmptyText
       /\ \E header \in HeaderKeywords : Contains(header, RowText(rows[1]))
    THEN 1 ELSE 0

\* lines 188-193: a cell's normalized text, "" when it cannot be read
CellText(cell) ==
    IF cell.ok THEN Strip(ReplaceNbsp(cell.text)) ELSE EmptyText

\* cell_texts[k] if len(cell_texts) > k else ""
FieldAt(cell_texts, k) ==
    IF Len(cell_texts) > k THEN cell_texts[k + 1] ELSE EmptyText

\* Variant: grantor and grantee take each other's cell.
MakeRecordSwapped(i, cell_texts) ==
    [row_number |-> i + 1,
     instrument_number |-> FieldAt(cell_texts, 0),
     date |-> FieldAt(cell_texts, 1),
     doc_type |-> FieldAt(cell_texts, 2),
     grantor |-> FieldAt(cell_texts, 4),
     grantee |-> FieldAt(cell_texts, 3),
     legal_description |-> FieldAt(cell_texts, 5),
     raw_data |-> cell_texts]

\* lines 196-205, i the 0-based index of the row
MakeRecord(i, cell_texts) ==
    [row_number |-> i + 1,
     instrument_number |-> FieldAt(cell_texts, 0),
     date |-> FieldAt(cell_texts, 1),
     doc_type |-> FieldAt(cell_texts, 2),
     grantor |-> FieldAt(cell_texts, 3),
     grantee |-> FieldAt(cell_texts, 4),
     legal_description |-> FieldAt(cell_texts, 5),
     raw_data |-> cell_texts]

\* Variant: a row needs more than 3 cells.
ParseRowOver3(row, i) ==
    IF ~row.ok THEN <<>>
    ELSE IF Len(TdCells(row)) > 3
         THEN <<MakeRecord(i, [k \in 1..Len(TdCells(row)) |-> CellText(TdCells(row)[k])])>>
         ELSE <<>>

\* Variant: a cell that cannot be read fails its whole row.
ParseRowStrict(row, i) ==
    IF ~row.ok THEN <<>>
    ELSE IF \E k \in 1..Len(TdCells(row)) : ~TdCells(row)[k].ok THEN <<>>
    ELSE IF Len(TdCells(row)) >= 3
         THEN <<MakeRecord(i, [k \in 1..Len(TdCells(row)) |-> CellText(TdCells(row)[k])])>>
         ELSE <<>>

\* lines 180-210 for one row: the records it contributes (none or one)
ParseRow(row, i) ==
    IF ~row.ok THEN <<>>
    ELSE IF Len(TdCells(row)) >= 3
         THEN <<MakeRecord(i, [k \in 1..Len(TdCells(row)) |-> CellText(TdCells(row)[k])])>>
         ELSE <<>>

\* for i in range(start_row, len(rows))
RECURSIVE ParseRows(_, _)
ParseRows(rows, i) ==
    IF i >= Len(rows) THEN <<>>
    ELSE ParseRow(rows[i + 1], i) \o ParseRows(rows, i + 1)

\* The whole of scrape_results_table: tableWaitOk is the outcome of the wait
\* for a table element; any failure outside the per-row handler yields [].
ScrapeResultsTable(tables, tableWaitOk) ==
    IF ~tableWaitOk THEN [table |-> NoTable, data |-> <<>>]
    ELSE LET r == FindResultsTable(tables) IN
         IF ~r.found THEN [table |-> r, data |-> <<>>]
         ELSE LET rows == tables[r.index + 1].rows IN
              IF ~rows[1].textOk THEN [table |-> r, data |-> <<>>]
              ELSE [table |-> r, data |-> ParseRows(rows, StartRow(rows))]

\* ---------------------------------------------------------------- select_brand_document_type
\* Variant: a checkbox that does not attach is only warned about.
SelectBrandLenient(attach, checkedBefore, clickOk, checkedAfter) ==
    IF attach # "handle" THEN [raised |-> FALSE, clicked |-> FALSE, warned |-> TRUE]
    ELSE IF checkedBefore THEN [raised |-> FALSE, clicked |-> FALSE, warned |-> FALSE]
    ELSE IF ~clickOk THEN [raised |-> TRUE, clicked |-> FALSE, warned |-> FALSE]
    ELSE [raised |-> FALSE, clicked |-> TRUE, warned |-> ~checkedAfter]

\* attach: what the wait for the checkbox gave ("handle", "none", "timeout");
\* checkedBefore / checkedAfter: is_checked() before and after the click;
\* clickOk: whether the click went through.
SelectBrandDocumentType(attach, checkedBefore, clickOk, checkedAfter) ==
    IF attach # "handle" THEN [raised |-> TRUE, clicked |-> FALSE, warned |-> FALSE]
    ELSE IF checkedBefore THEN [raised |-> FALSE, clicked |-> FALSE, warned |-> FALSE]
    ELSE IF ~clickOk THEN [raised |-> TRUE, clicked |-> FALSE, warned |-> FALSE]
    ELSE [raised |-> FALSE, clicked |-> TRUE, warned |-> ~checkedAfter]

\* ---------------------------------------------------------------- click_search_button
NumSelectors == 4
EnterKey == 5

\* lines 72-80: the first selector of the list that matches, else the Enter key
SubmitVia(matches) ==
    IF matches = {} THEN EnterKey
    ELSE CHOOSE k \in matches : \A j \in matches : k <= j

ClickSearchButton(matches, ok) ==
    IF ok THEN [raised |-> FALSE, via |-> SubmitVia(matches)]
    ELSE [raised |-> TRUE, via |-> 0]

\* ---------------------------------------------------------------- wait_for_search_results
OnResultsPage(u) == Contains(ResultsPath, u)

\* Variant: the handler of line 115 raises again.
WaitForSearchResultsRaising(failAt, u1, u2) ==
    IF failAt \in {1, 2, 3} THEN [raised |-> TRUE, value |-> FALSE, url |-> u1]
    ELSE IF OnResultsPage(u1) THEN [raised |-> FALSE, value |-> TRUE, url |-> u1]
    ELSE IF failAt = 4 THEN [raised |-> TRUE, value |-> FALSE, url |-> u2]
    ELSE IF OnResultsPage(u2) THEN [raised |-> FALSE, value |-> TRUE, url |-> u2]
    ELSE [raised |-> FALSE, value |-> FALSE, url |-> u2]

\* failAt: which of the four waits of the try block fails or times out
\* (1 indicator appears, 2 indicator hidden, 3 settle delay, 4 additional
\* wait; 0 none).  u1, u2: page.url at the first and at the second read.
WaitForSearchResults(failAt, u1, u2) ==
    IF failAt \in {1, 2, 3} THEN [raised |-> FALSE, value |-> OnResultsPage(u1), url |-> u1]
    ELSE IF OnResultsPage(u1) THEN [raised |-> FALSE, value |-> TRUE, url |-> u1]
    ELSE IF failAt = 4 THEN [raised |-> FALSE, value |-> OnResultsPage(u2), url |-> u2]
    ELSE IF OnResultsPage(u2) THEN [raised |-> FALSE, value |-> TRUE, url |-> u2]
    ELSE [raised |-> FALSE, value |-> FALSE, url |-> u2]

\* Variant: a false outcome aborts the run.
AfterWaitAbort(reached) == [abort |-> ~reached, warn |-> ~reached]

\* lines 270-271: a false outcome only logs a warning
AfterWait(reached) == [abort |-> FALSE, warn |-> ~reached]

\* ---------------------------------------------------------------- save_results
\* Variant: the file is opened for appending.
WriteFileAppend(old, data, out) ==
    IF out.kind = "open_fails" THEN old
    ELSE [status |-> "old", rows |-> data]

\* One output file after open(path, 'w') and the writes: out.kind is "ok",
\* "open_fails" (the file is left as it was) or "write_fails" (the file was
\* truncated and holds the out.flushed first records).
WriteFile(old, data, out) ==
    IF out.kind = "ok" THEN [status |-> "written", rows |-> data]
    ELSE IF out.kind = "open_fails" THEN old
    ELSE [status |-> "partial", rows |-> SubSeq(data, 1, out.flushed)]

\* Variant: one try block around both writes.
SaveResultsOneTry(data, csvOut, jsonlOut, csvOld, jsonlOld) ==
    IF data = <<>>
    THEN [raised |-> FALSE, csv |-> csvOld, jsonl |-> jsonlOld, log |-> {"no_data"}]
    ELSE IF csvOut.kind # "ok"
    THEN [raised |-> FALSE, csv |-> WriteFile(csvOld, data, csvOut), jsonl |-> jsonlOld,
          log |-> {"err_csv"}]
    ELSE [raised |-> FALSE,
          csv |-> WriteFile(csvOld, data, csvOut),
          jsonl |-> WriteFile(jsonlOld, data, jsonlOut),
          log |-> {"saved_csv",
                   IF jsonlOut.kind = "ok" THEN "saved_jsonl" ELSE "err_jsonl"}]

SaveResults(data, csvOut, jsonlOut, csvOld, jsonlOld) ==
    IF data = <<>>
    THEN [raised |-> FALSE, csv |-> csvOld, jsonl |-> jsonlOld, log |-> {"no_data"}]
    ELSE [raised |-> FALSE,
          csv |-> WriteFile(csvOld, data, csvOut),
          jsonl |-> WriteFile(jsonlOld, data, jsonlOut),
          log |-> {IF csvOut.kind = "ok" THEN "saved_csv" ELSE "err_csv",
                   IF jsonlOut.kind = "ok" THEN "saved_jsonl" ELSE "err_jsonl"}]

\* ---------------------------------------------------------------- inputs
URLS ==
    {SEARCH_ENTRY_URL, SEARCH_RESULTS_URL,
     SEARCH_RESULTS_URL \o <<"?page=1">>, <<"about:blank">>}

\* Rows for the table discovery cases.
NarrowFirst == RowOf(<<Td(<<"Date">>), Td(<<"a">>)>>)
HeaderFirst == RowOf(<<Td(<<"Instrument">>), Td(<<"Date">>), Td(<<"Doc Type">>)>>)
MixedFirst == RowOf(<<Th(<<"No">>), Th(<<"Name">>), Td(<<"a">>)>>)
FirstRows == {NarrowFirst, HeaderFirst, MixedFirst}

BlankRow == RowOf(<<Td(EmptyText), Td(<<Nbsp>>), Td(<<Space, Nbsp, Space>>)>>)
TextRow == RowOf(<<Td(EmptyText), Td(<<Space, "a">>), Td(<<"b">>)>>)
ThTextRow == RowOf(<<Th(<<"a">>), Td(EmptyText), Td(<<Nbsp>>)>>)
ErrFirstRow == RowOf(<<TdUnreadable, Td(<<"a">>), Td(<<"b">>)>>)
HitThenErrRow == RowOf(<<Td(<<"a">>), TdUnreadable, Td(<<"b">>)>>)
TwoNbspRow == RowOf(<<Td(<<Nbsp, Nbsp>>), Td(EmptyText), Td(EmptyText)>>)
SampleRows ==
    {BlankRow, TextRow, ThTextRow, ErrFirstRow, HitThenErrRow, TwoNbspRow, DetachedRow}

\* n further rows, all with text
MoreRows(n) == [k \in 1..n |-> TextRow]

FindTables ==
    {[rows |-> <<>>, ok |-> TRUE], [rows |-> <<HeaderFirst, TextRow>>, ok |-> FALSE]}
    \cup {TableOf(<<f>>) : f \in FirstRows}
    \cup {TableOf(<<f, r1>>) : f \in FirstRows, r1 \in SampleRows}
    \cup {TableOf(<<f, r1, r2>> \o MoreRows(n)) :
            f \in FirstRows, r1 \in SampleRows, r2 \in SampleRows, n \in 0..(MaxRows - 3)}

LayoutTable == TableOf(<<RowOf(<<Td(<<"menu">>)>>)>>)
BlankTable == TableOf(<<HeaderFirst, BlankRow, BlankRow, TextRow>>)
GoodTable == TableOf(<<HeaderFirst, TextRow, HitThenErrRow>>)
OtherTables == {LayoutTable, BlankTable, GoodTable}

\* The sequence of n elements with x at position p and the elements of
\* others, in order, at the other positions.
PlaceAt(n, p, x, others) ==
    [k \in 1..n |-> IF k = p THEN x ELSE IF k < p THEN others[k] ELSE others[k - 1]]

\* Rows for the row mapping cases: n cells, the cell at pos special, every
\* other cell holding its own position as text.
SpecialCells ==
    {TdUnreadable,
     Td(<<Space, "a", Nbsp, "b", Nbsp, Space>>),
     Td(<<Nbsp>>),
     Th(<<"h">>)}

DataRow(n, pos, special) ==
    RowOf([k \in 1..n |-> IF k = pos THEN special ELSE Td(<<ToString(k)>>)])

DataRows ==
    {DataRow(n, 0, TdUnreadable) : n \in 0..MaxCells}
    \cup UNION {{DataRow(n, pos, sp) : pos \in 1..n, sp \in SpecialCells} : n \in 1..MaxCells}

ShortRow == RowOf(<<Td(<<"a">>), Td(<<"b">>)>>)
PlainRows == {TextRow, ShortRow, DetachedRow}

PlainFirst == RowOf(<<Td(<<"a">>), Td(<<"b">>), Td(<<"c">>)>>)
ThHeaderFirst == RowOf(<<Th(<<"Instrument">>), Th(<<"Date">>), Th(<<"Doc Type">>)>>)
NoTextFirst == [cells |-> HeaderFirst.cells, ok |-> TRUE, textOk |-> FALSE]
ScrapeFirstRows == {HeaderFirst, ThHeaderFirst, PlainFirst, NoTextFirst}

\* Pages of the whole-run specification.
MainPages ==
    {<<>>, <<LayoutTable>>, <<LayoutTable, BlankTable>>, <<LayoutTable, GoodTable>>}

WriteKinds == {"ok", "open_fails", "write_fails"}
NoWait == [failAt |-> -1, u1 |-> <<>>, u2 |-> <<>>]
NoSave == [csv |-> "none", jsonl |-> "none"]

\* ---------------------------------------------------------------- state
VARIABLES
    pc,            \* the step main() is at
    browserOpen,   \* the browser launched by main() is open
    pending,       \* the exception propagating out of the try block
    exitStatus,    \* the process's exit status, -1 while it runs
    url,           \* page.url
    tables,        \* the table elements of the current page
    checkboxWait,  \* what the wait for the BRAND checkbox gave
    clicked,       \* the BRAND checkbox was clicked
    submittedVia,  \* how the search was submitted, 0 if it was not
    waitIn,        \* what the waits of wait_for_search_results met
    waitResult,    \* what wait_for_search_results returned
    tableWait,     \* what the wait for a table element gave
    found,         \* what find_results_table returned
    data,          \* the records scrape_results_table returned
    saveIn,        \* what the two writes of save_results met
    csvFile,       \* fort_bend_brands.csv
    jsonlFile,     \* fort_bend_brands.jsonl
    log            \* the messages printed so far

vars ==
    <<pc, browserOpen, pending, exitStatus, url, tables, checkboxWait, clicked,
      submittedVia, waitIn, waitResult, tableWait, found, data, saveIn,
      csvFile, jsonlFile, log>>

Steps == {"navigate", "select", "submit", "wait", "scrape", "save"}

\* The state once the browser is launched and the page is open (line 256).
Init ==
    /\ pc = "navigate"
    /\ browserOpen = TRUE
    /\ pending = "none"
    /\ exitStatus = -1
    /\ url = <<"about:blank">>
    /\ tables \in MainPages
    /\ checkboxWait = "pending"
    /\ clicked = FALSE
    /\ submittedVia = 0
    /\ waitIn = NoWait
    /\ waitResult = FALSE
    /\ tableWait = "pending"
    /\ found = NoTable
    /\ data = <<>>
    /\ saveIn = NoSave
    /\ csvFile = OldContent
    /\ jsonlFile = OldContent
    /\ log = {}

\* An exception leaves the try block through the handler of lines 282-284.
Raise ==
    /\ pending' = "error"
    /\ pc' = "finally"

\* Step 1 (lines 260-261): page.goto
Navigate ==
    /\ pc = "navigate"
    /\ \E ok \in BOOLEAN :
        IF ok
        THEN /\ url' = SEARCH_ENTRY_URL
             /\ pc' = "select"
             /\ log' = log \cup {"step1"}
             /\ UNCHANGED pending
        ELSE /\ Raise
             /\ log' = log \cup {"step1", "error_during"}
             /\ UNCHANGED url
    /\ UNCHANGED <<browserOpen, exitStatus, tables, checkboxWait, clicked, submittedVia,
                   waitIn, waitResult, tableWait, found, data, saveIn, csvFile, jsonlFile>>

\* Step 2 (lines 263-264): select_brand_document_type
SelectBrand ==
    /\ pc = "select"
    /\ \E attach \in {"handle", "none", "timeout"}, checkedBefore \in BOOLEAN,
          clickOk \in BOOLEAN, checkedAfter \in BOOLEAN :
        LET r == SelectBrandDocumentType(attach, checkedBefore, clickOk, checkedAfter) IN
        /\ checkboxWait' = attach
        /\ clicked' = r.clicked
        /\ IF r.raised
           THEN /\ Raise
                /\ log' = log \cup {"step2", "error_selecting", "error_during"}
           ELSE /\ pc' = "submit"
                /\ log' = log \cup {"step2"}
                           \cup (IF r.warned THEN {"warn_selection"} ELSE {})
                /\ UNCHANGED pending
    /\ UNCHANGED <<browserOpen, exitStatus, url, tables, submittedVia, waitIn, waitResult,
                   tableWait, found, data, saveIn, csvFile, jsonlFile>>

\* Step 3 (lines 266-267): click_search_button
ClickSearch ==
    /\ pc = "submit"
    /\ \E matches \in SUBSET (1..NumSelectors), ok \in BOOLEAN :
        LET r == ClickSearchButton(matches, ok) IN
        /\ submittedVia' = r.via
        /\ IF r.raised
           THEN /\ Raise
                /\ log' = log \cup {"step3", "error_submitting", "error_during"}
           ELSE /\ pc' = "wait"
                /\ log' = log \cup {"step3"}
                /\ UNCHANGED pending
    /\ UNCHANGED <<browserOpen, exitStatus, url, tables, checkboxWait, clicked, waitIn,
                   waitResult, tableWait, found, data, saveIn, csvFile, jsonlFile>>

\* Step 4 (lines 269-271): wait_for_search_results
WaitResults ==
    /\ pc = "wait"
    /\ \E failAt \in 0..4, u1 \in URLS, u2 \in URLS :
        LET r == WaitForSearchResults(failAt, u1, u2)
            a == AfterWait(r.value)
        IN
        /\ waitIn' = [failAt |-> failAt, u1 |-> u1, u2 |-> u2]
        /\ url' = r.url
        /\ IF r.raised \/ a.abort
           THEN /\ Raise
                /\ log' = log \cup {"step4", "error_during"}
                /\ UNCHANGED waitResult
           ELSE /\ pc' = "scrape"
                /\ waitResult' = r.value
                /\ log' = log \cup {"step4"}
                           \cup (IF a.warn THEN {"warn_results"} ELSE {})
                /\ UNCHANGED pending
    /\ UNCHANGED <<browserOpen, exitStatus, tables, checkboxWait, clicked, submittedVia,
                   tableWait, found, data, saveIn, csvFile, jsonlFile>>

\* Step 5 (lines 274-275): scrape_results_table.  The wait for a table
\* element times out when the page has none.
Scrape ==
    /\ pc = "scrape"
    /\ \E waitOk \in BOOLEAN :
        /\ tables = <<>> => ~waitOk
        /\ LET r == ScrapeResultsTable(tables, waitOk) IN
            /\ tableWait' = IF waitOk THEN "ok" ELSE "timeout"
            /\ found' = r.table
            /\ data' = r.data
    /\ pc' = "save"
    /\ log' = log \cup {"step5"}
    /\ UNCHANGED <<browserOpen, pending, exitStatus, url, tables, checkboxWait, clicked,
                   submittedVia, waitIn, waitResult, saveIn, csvFile, jsonlFile>>

\* Step 6 (lines 277-280): save_results
Save ==
    /\ pc = "save"
    /\ \E ck \in WriteKinds, jk \in WriteKinds, cf \in 0..Len(data), jf \in 0..Len(data) :
        /\ ck # "write_fails" => cf = 0
        /\ jk # "write_fails" => jf = 0
        /\ data = <<>> => ck = "ok" /\ jk = "ok"
        /\ LET r == SaveResults(data, [kind |-> ck, flushed |-> cf],
                                [kind |-> jk, flushed |-> jf], csvFile, jsonlFile)
           IN
            /\ saveIn' = IF data = <<>> THEN NoSave ELSE [csv |-> ck, jsonl |-> jk]
            /\ csvFile' = r.csv
            /\ jsonlFile' = r.jsonl
            /\ IF r.raised
               THEN /\ Raise
                    /\ log' = log \cup {"step6", "error_during"} \cup r.log
               ELSE /\ pc' = "finally"
                    /\ log' = log \cup {"step6", "complete"} \cup r.log
                    /\ UNCHANGED pending
    /\ UNCHANGED <<browserOpen, exitStatus, url, tables, checkboxWait, clicked,
                   submittedVia, waitIn, waitResult, tableWait, found, data>>

\* A keyboard interrupt during one of the six steps: the run is cancelled at
\* the await it is suspended on; no `except Exception` handler catches it.
Interrupt ==
    /\ pc \in Steps
    /\ pending' = "interrupt"
    /\ pc' = "finally"
    /\ UNCHANGED <<browserOpen, exitStatus, url, tables, checkboxWait, clicked,
                   submittedVia, waitIn, waitResult, tableWait, found, data, saveIn,
                   csvFile, jsonlFile, log>>

\* Variant: the browser is closed at the end of the try block only.
CloseBrowserOnSuccess ==
    /\ pc = "finally"
    /\ browserOpen' = (pending # "none")
    /\ pc' = "exit"
    /\ UNCHANGED <<pending, exitStatus, url, tables, checkboxWait, clicked, submittedVia,
                   waitIn, waitResult, tableWait, found, data, saveIn, csvFile, jsonlFile,
                   log>>

\* lines 285-286: finally: await browser.close()
CloseBrowser ==
    /\ pc = "finally"
    /\ browserOpen' = FALSE
    /\ pc' = "exit"
    /\ UNCHANGED <<pending, exitStatus, url, tables, checkboxWait, clicked, submittedVia,
                   waitIn, waitResult, tableWait, found, data, saveIn, csvFile, jsonlFile,
                   log>>

\* lines 289-296: the handlers around asyncio.run(main())
ExitProcess ==
    /\ pc = "exit"
    /\ pc' = "done"
    /\ exitStatus' = IF pending = "error" THEN 1 ELSE 0
    /\ log' = log \cup (IF pending = "error" THEN {"fatal"}
                        ELSE IF pending = "interrupt" THEN {"interrupted"}
                        ELSE {})
    /\ UNCHANGED <<browserOpen, pending, url, tables, checkboxWait, clicked, submittedVia,
                   waitIn, waitResult, tableWait, found, data, saveIn, csvFile, jsonlFile>>

Next ==
    \/ Navigate
    \/ SelectBrand
    \/ ClickSearch
    \/ WaitResults
    \/ Scrape
    \/ Save
    \/ Interrupt
    \/ CloseBrowser
    \/ ExitProcess

Spec == Init /\ [][Next]_vars

\* ---------------------------------------------------------------- extraction alone
\* The run at step 5.  The page is either up to MaxTables tables, one of
\* FindTables at any position and the others from OtherTables, or a single
\* table of a first row and up to MaxRows - 1 further rows, one of DataRows
\* at any position and the others from PlainRows.
InitExtract ==
    /\ pc = "scrape"
    /\ browserOpen = TRUE
    /\ pending = "none"
    /\ exitStatus = -1
    /\ url = SEARCH_RESULTS_URL
    /\ \/ \E n \in 1..MaxTables, p \in 1..MaxTables, t \in FindTables :
            \E others \in [1..(n - 1) -> OtherTables] :
                /\ p <= n
                /\ tables = PlaceAt(n, p, t, others)
       \/ \E n \in 1..(MaxRows - 1), p \in 1..(MaxRows - 1),
             f \in ScrapeFirstRows, r \in DataRows :
            \E others \in [1..(n - 1) -> PlainRows] :
                /\ p <= n
                /\ tables = <<TableOf(<<f>> \o PlaceAt(n, p, r, others))>>
    /\ checkboxWait = "handle"
    /\ clicked = TRUE
    /\ submittedVia = 1
    /\ waitIn = [failAt |-> 0, u1 |-> SEARCH_RESULTS_URL, u2 |-> SEARCH_RESULTS_URL]
    /\ waitResult = TRUE
    /\ tableWait = "pending"
    /\ found = NoTable
    /\ data = <<>>
    /\ saveIn = NoSave
    /\ csvFile = OldContent
    /\ jsonlFile = OldContent
    /\ log = {"step1", "step2", "step3", "step4"}

NextExtract == Scrape

SpecExtract == InitExtract /\ [][NextExtract]_vars

\* ================================================================ properties

Ended == pc = "done"
WaitRan == waitIn.failAt # -1
Scraped == "step5" \in log
Saved == "step6" \in log

\* ---------------------------------------------------------------- C1
\* C1: once the browser is launched and the page is open, no run ends with
\* the browser still open, whether the steps succeeded, one of them raised,
\* or one of them was interrupted.
BrowserClosedAtEnd == pc \in {"exit", "done"} => ~browserOpen

\* A run interrupted while scraping has ended, its browser closed.
InterruptedRunClosed ==
    Ended /\ pending = "interrupt" /\ "step4" \in log /\ ~Scraped /\ ~browserOpen

\* ---------------------------------------------------------------- C2
\* C2: when the BRAND checkbox does not attach within the timeout the run
\* aborts: the search is not submitted, steps 3 to 6 do not run, no output
\* file is written, and the process exits with a non-zero status.
BrandTimeoutAborts ==
    checkboxWait = "timeout" =>
        /\ pending = "error"
        /\ pc \in {"finally", "exit", "done"}
        /\ submittedVia = 0
        /\ log \cap {"step3", "step4", "step5", "step6"} = {}
        /\ csvFile = OldContent /\ jsonlFile = OldContent
        /\ Ended => exitStatus = 1

BrandTimeoutEnded == checkboxWait = "timeout" /\ Ended /\ exitStatus = 1

\* ---------------------------------------------------------------- helpers for C3, C5
\* The three tests of table discovery, on the table's content.
HasDataRows(table) == Len(table.rows) > 1
WideFirstRow(table) == Len(table.rows[1].cells) >= 3
TextInSample(table) ==
    \E i \in {2, 3} :
        /\ i <= Len(table.rows)
        /\ \E k \in 1..Len(table.rows[i].cells) :
            /\ table.rows[i].cells[k].tag = "td"
            /\ Strip(table.rows[i].cells[k].text) \notin {EmptyText, <<Nbsp>>}
PassesTests(table) == HasDataRows(table) /\ WideFirstRow(table) /\ TextInSample(table)

Passing(page) == {i \in 1..Len(page) : PassesTests(page[i])}

\* ---------------------------------------------------------------- C3
UrlNeverMatched ==
    waitIn.failAt = 0 /\ ~OnResultsPage(waitIn.u1) /\ ~OnResultsPage(waitIn.u2)

NothingToExtract == tableWait = "timeout" \/ Passing(tables) = {}

\* C3: when the URL names the results page at neither check,
\* wait_for_search_results returns false and the run goes on: extraction
\* runs, gives no record when no table appears or none passes the tests,
\* save_results then writes nothing, and an uninterrupted run ends normally.
NoResultsUrlRunContinues ==
    UrlNeverMatched =>
        /\ waitResult = FALSE
        /\ pending # "error"
        /\ "warn_results" \in log
        /\ pending = "none" => pc \in {"scrape", "save", "finally", "exit", "done"}
        /\ (Ended /\ pending = "none") =>
              /\ {"step5", "step6"} \subseteq log
              /\ exitStatus = 0
        /\ (Scraped /\ NothingToExtract) => data = <<>>
        /\ (Saved /\ NothingToExtract) =>
              /\ csvFile = OldContent /\ jsonlFile = OldContent
              /\ "no_data" \in log

NoResultsUrlRunEnded ==
    /\ UrlNeverMatched /\ Ended /\ exitStatus = 0
    /\ tables # <<>> /\ tableWait = "ok" /\ Passing(tables) = {}
    /\ data = <<>> /\ "no_data" \in log /\ csvFile = OldContent

\* ---------------------------------------------------------------- C4
\* C4: wait_for_search_results never raises.  When one of the waits before
\* the first URL check fails or times out it returns whether the URL read
\* at that moment names the results page; otherwise it returns whether the
\* URL names the results page at the first check or at the one re-check.
WaitReturnsUrlCheck ==
    WaitRan =>
        /\ pending # "error"
        /\ "step4" \in log
        /\ waitIn.failAt \in {1, 2, 3} => (waitResult <=> OnResultsPage(waitIn.u1))
        /\ waitIn.failAt \in {0, 4} =>
              (waitResult <=> (OnResultsPage(waitIn.u1) \/ OnResultsPage(waitIn.u2)))
        /\ (waitIn.failAt = 4 /\ ~OnResultsPage(waitIn.u1)) =>
              (waitResult <=> OnResultsPage(waitIn.u2))

IndicatorTimeoutOnResultsPage ==
    waitIn.failAt = 2 /\ waitResult /\ pc = "scrape" /\ OnResultsPage(url)

\* ---------------------------------------------------------------- C5
NoReadErrors(page) ==
    \A i \in 1..Len(page) :
        /\ page[i].ok
        /\ \A j \in 1..Len(page[i].rows) :
            /\ page[i].rows[j].ok
            /\ \A k \in 1..Len(page[i].rows[j].cells) : page[i].rows[j].cells[k].ok

SelectedRows == tables[found.index + 1].rows
IsHeader(row) == \E header \in HeaderKeywords : Contains(header, RowText(row))
FirstDataRow == IF IsHeader(SelectedRows[1]) THEN 2 ELSE 1
DataRowPositions == FirstDataRow..Len(SelectedRows)
NumTd(row) == Len(TdCells(row))
RowNumbers == {data[k].row_number : k \in 1..Len(data)}
\* extraction got as far as the rows of the selected table
Extracted == Scraped /\ found.found /\ SelectedRows[1].textOk

\* ---------------------------------------------------------------- C6
\* C6: for the selected table the output holds exactly one record per data
\* row that is read and has at least 3 cells, in row order, none for a
\* data row with fewer than 3 cells, and row_number is the row's 1-based
\* position counting the header row.
RecordsPerDataRow ==
    Extracted =>
        LET kept == {i \in DataRowPositions :
                        SelectedRows[i].ok /\ NumTd(SelectedRows[i]) >= 3}
        IN
        /\ RowNumbers = kept
        /\ Len(data) = Cardinality(kept)
        /\ \A k \in 1..(Len(data) - 1) : data[k].row_number < data[k + 1].row_number

\* A header and 3 data rows, the second data row with 2 cells: 2 records,
\* numbered 2 and 4.
FourRowScenario ==
    /\ Extracted /\ Len(SelectedRows) = 4 /\ FirstDataRow = 2
    /\ NumTd(SelectedRows[2]) >= 3 /\ NumTd(SelectedRows[3]) = 2
    /\ NumTd(SelectedRows[4]) >= 3
    /\ Len(data) = 2 /\ data[1].row_number = 2 /\ data[2].row_number = 4

\* ---------------------------------------------------------------- C7
NamedFields(rec) ==
    <<rec.instrument_number, rec.date, rec.doc_type, rec.grantor, rec.grantee,
      rec.legal_description>>

\* C7: the record of a data row with N >= 3 cells has raw_data of length N
\* holding the normalized cell texts in cell order; the six named fields
\* equal raw_data position by position up to min(N, 6), and are empty from
\* position N on.
FieldsArePositional ==
    Extracted =>
        \A k \in 1..Len(data) :
            LET rec == data[k]
                cells == TdCells(SelectedRows[rec.row_number])
                N == Len(cells)
            IN
            /\ N >= 3
            /\ Len(rec.raw_data) = N
            /\ \A j \in 1..N :
                  cells[j].ok => rec.raw_data[j] = Strip(ReplaceNbsp(cells[j].text))
            /\ \A j \in 1..6 :
                  NamedFields(rec)[j] = IF j <= N THEN rec.raw_data[j] ELSE EmptyText

\* A record of 7 cells with two distinct texts at positions 4 and 5 and a
\* 7th cell kept in raw_data, next to a record of 3 cells.
SevenAndThreeCells ==
    /\ Extracted
    /\ \E k \in 1..Len(data) :
          /\ Len(data[k].raw_data) = 7
          /\ data[k].raw_data[7] # EmptyText
          /\ data[k].grantor # data[k].grantee
    /\ \E k \in 1..Len(data) :
          /\ Len(data[k].raw_data) = 3
          /\ data[k].grantor = EmptyText

\* ---------------------------------------------------------------- C8
HasUnreadableCell(row) == \E k \in 1..NumTd(row) : ~TdCells(row)[k].ok
HasRecord(i) == i \in RowNumbers
RecordOf(i) == data[CHOOSE k \in 1..Len(data) : data[k].row_number = i]

\* C8 as stated: a data row whose reading fails, the failure to read one of
\* its cells included, gives no record, and every later row with at least
\* 3 cells still gives its record.
FailedRowIsSkipped ==
    Extracted =>
        \A i \in DataRowPositions :
            (~SelectedRows[i].ok \/ HasUnreadableCell(SelectedRows[i])) =>
                /\ ~HasRecord(i)
                /\ \A j \in DataRowPositions :
                      (j > i /\ SelectedRows[j].ok /\ NumTd(SelectedRows[j]) >= 3
                       /\ ~HasUnreadableCell(SelectedRows[j])) => HasRecord(j)

\* C8 amended: a data row whose cells cannot be listed gives no record; a
\* data row with at least 3 cells of which one cannot be read still gives
\* its record, with the empty string for that cell; in both cases every
\* later row whose cells can be listed and number at least 3 gives its
\* record.
FailedRowHandling ==
    Extracted =>
        \A i \in DataRowPositions :
            /\ ~SelectedRows[i].ok => ~HasRecord(i)
            /\ (SelectedRows[i].ok /\ NumTd(SelectedRows[i]) >= 3
                /\ HasUnreadableCell(SelectedRows[i])) =>
                  /\ HasRecord(i)
                  /\ \A k \in 1..NumTd(SelectedRows[i]) :
                        ~TdCells(SelectedRows[i])[k].ok => RecordOf(i).raw_data[k] = EmptyText
            /\ (~SelectedRows[i].ok \/ HasUnreadableCell(SelectedRows[i])) =>
                  \A j \in DataRowPositions :
                      (j > i /\ SelectedRows[j].ok /\ NumTd(SelectedRows[j]) >= 3)
                          => HasRecord(j)

\* A row with an unreadable cell, then a row whose cells cannot be listed,
\* then a good row: records for the first and the third.
FailuresThenGoodRow ==
    /\ Extracted /\ Len(SelectedRows) = 4 /\ FirstDataRow = 2
    /\ SelectedRows[2].ok /\ HasUnreadableCell(SelectedRows[2]) /\ HasRecord(2)
    /\ ~SelectedRows[3].ok /\ ~HasRecord(3)
    /\ HasRecord(4)

\* ---------------------------------------------------------------- C9
\* C9 as stated: every run that reaches the persistence step overwrites
\* both output files, whatever the records are, so neither file still
\* holds the content of an earlier run.
SaveOverwritesBoth ==
    Saved => (csvFile.status # "old" /\ jsonlFile.status # "old")

Written(records) == [status |-> "written", rows |-> records]

\* C9 amended: a run that reaches the persistence step with at least one
\* record overwrites each output file it manages to open, and a file whose
\* write succeeds holds exactly the records; with no record neither file is
\* touched and both keep the content of the earlier run.
SaveOverwritesWhenData ==
    Saved =>
        /\ data = <<>> => (csvFile = OldContent /\ jsonlFile = OldContent)
        /\ data # <<>> =>
              /\ saveIn.csv # "open_fails" => csvFile.status # "old"
              /\ saveIn.jsonl # "open_fails" => jsonlFile.status # "old"
              /\ saveIn.csv = "ok" => csvFile = Written(data)
              /\ saveIn.jsonl = "ok" => jsonlFile = Written(data)

BothFilesWritten ==
    Saved /\ data # <<>> /\ csvFile = Written(data) /\ jsonlFile = Written(data)

\* ---------------------------------------------------------------- C10
\* C10: with at least one record, a failure writing the CSV file does not
\* keep the JSONL write from being attempted, no write failure leaves
\* save_results, and the run ends normally.
WritesAreIndependent ==
    (Saved /\ data # <<>>) =>
        /\ pending = "none"
        /\ {"saved_csv", "err_csv"} \cap log # {}
        /\ {"saved_jsonl", "err_jsonl"} \cap log # {}
        /\ saveIn.csv # "ok" => "err_csv" \in log
        /\ saveIn.jsonl = "ok" => jsonlFile = Written(data)
        /\ saveIn.jsonl = "write_fails" => jsonlFile.status = "partial"
        /\ "complete" \in log
        /\ Ended => exitStatus = 0

CsvFailedJsonlWritten ==
    /\ Saved /\ data # <<>> /\ saveIn.csv = "write_fails" /\ saveIn.jsonl = "ok"
    /\ csvFile.status = "partial" /\ jsonlFile = Written(data)
    /\ Ended /\ exitStatus = 0

====
